---- MODULE Spec2Model ----
(***************************************************************************)
(* The GitHub repository fetch / cache / render pipeline of                *)
(* src/scripts/main.js: getCachedRepos, setCachedRepos, fetchGitHubRepos,  *)
(* sortRepos, renderRepoCard, initGitHubRepos and refreshGitHubRepos, as a *)
(* state machine over localStorage, the clock, the #repos-grid container   *)
(* and the asynchronous runs of the pipeline.                              *)
(*                                                                         *)
(* A repository record is identified by the upstream page it came from and *)
(* its position on that page.  A list of records is kept as the sequence   *)
(* of its per-page chunks [page |-> p, n |-> k], standing for the records  *)
(* <<p, 1>> .. <<p, k>> in order; Flatten expands it.                      *)
(***************************************************************************)
EXTENDS Integers, Sequences, FiniteSets, TLC

(* ------------------------------ bounds --------------------------------- *)
MaxTicks == 2
MaxRuns == 2
\* The upstream pages that hold records when the whole pipeline runs.
UpstreamPages == 2
\* Pages a cached list found at page load is made of, and how many of them.
CachedPages == 5
MaxChunks == 2
\* requestAnimationFrame calls followed.
MaxFrames == 3
\* How often fetchGitHubRepos is called on its own, one call after the
\* other.
MaxCalls == 3
\* history.pushState calls followed.
MaxPushes == 2

(* -------------------------- program constants -------------------------- *)
CACHE_DURATION_MS == 60 * 60 * 1000
MAX_VISIBLE_REPOS == 9
MaxPages == 10
SkeletonCount == 6
RateLimitStatus == 403
PerPage == 100
DescriptionLimit == 100

(* ------------------------- environment inputs -------------------------- *)
\* Date.now() when the page loads; any value past the first hour of the epoch.
PageLoadTime == 2 * CACHE_DURATION_MS
\* How far the clock moves between two steps.
TickSteps == {1, CACHE_DURATION_MS - 1}
\* Page sizes the upstream serves to the whole pipeline, and to a direct call
\* of fetchGitHubRepos.
SmallPageSizes == {0, 2}
PageSizes == {0, 37, 100}
\* Non-success statuses the upstream answers with.
ErrorStatuses == {RateLimitStatus, 404, 500}
\* Offsets of local time from UTC, in seconds: the zones a direct call of
\* fetchGitHubRepos is tried in, and the zone the whole pipeline runs in.
TimeZones == {0, 19800}
PipelineZones == {19800}

Runs == 1 .. MaxRuns

(* ---------------------------- JS values -------------------------------- *)
\* The values the `repos` field of a cache entry (and so the result of
\* getCachedRepos) can take.
Undefined == [type |-> "undefined", items |-> <<>>]
Null == [type |-> "null", items |-> <<>>]
Str == [type |-> "string", items |-> <<>>]
Arr(l) == [type |-> "array", items |-> l]

\* if (v): arrays (also the empty one) and non-empty strings are truthy.
Truthy(v) == v.type \in {"array", "string"}

\* The values the `timestamp` field can take.
TsNumber(n) == [type |-> "number", n |-> n]
TsNumericString(n) == [type |-> "numstring", n |-> n]
TsText == [type |-> "text", n |-> 0]
TsNull == [type |-> "null", n |-> 0]
TsUndefined == [type |-> "undefined", n |-> 0]

\* ToNumber, applied by `now - timestamp`.
ToNumber(v) ==
    CASE v.type = "number" -> [nan |-> FALSE, n |-> v.n]
      [] v.type = "numstring" -> [nan |-> FALSE, n |-> v.n]
      [] v.type = "null" -> [nan |-> FALSE, n |-> 0]
      [] OTHER -> [nan |-> TRUE, n |-> 0]

Chunk(p, k) == [page |-> p, n |-> k]

RECURSIVE Length(_)
Length(l) == IF l = <<>> THEN 0 ELSE Head(l).n + Length(Tail(l))

RECURSIVE Flatten(_)
Flatten(l) ==
    IF l = <<>> THEN <<>>
    ELSE [i \in 1 .. Head(l).n |-> <<Head(l).page, i>>] \o Flatten(Tail(l))

(* --------------------------- localStorage ------------------------------ *)
\* What localStorage holds under CACHE_KEY: nothing, or a string, which is
\* the empty string, text that is no JSON, or the JSON text of a value.
NoJson == [type |-> "none", repos |-> Undefined, timestamp |-> TsUndefined]
JsonNull == [type |-> "null", repos |-> Undefined, timestamp |-> TsUndefined]
JsonPrimitive == [type |-> "prim", repos |-> Undefined, timestamp |-> TsUndefined]
JsonObject(repos, timestamp) ==
    [type |-> "object", repos |-> repos, timestamp |-> timestamp]

Absent == [present |-> FALSE, text |-> "none", json |-> NoJson]
EmptyString == [present |-> TRUE, text |-> "empty", json |-> NoJson]
Garbage == [present |-> TRUE, text |-> "garbage", json |-> NoJson]

\* JSON.stringify of a value, and JSON.parse of a stored string.
JSONstringify(json) == [present |-> TRUE, text |-> "json", json |-> json]
JSONparse(item) ==
    IF item.text = "json" THEN [ok |-> TRUE, json |-> item.json]
    ELSE [ok |-> FALSE, json |-> NoJson]

(* ------------------------- the cache (lines 144-181) ------------------- *)
\* Faulty variant of IsFresh: an entry exactly CACHE_DURATION_MS old still counts.
IsFreshInclusive(timestamp, now) ==
    LET t == ToNumber(timestamp)
    IN  ~t.nan /\ now - t.n <= CACHE_DURATION_MS

\* now - timestamp < CACHE_DURATION_MS; a comparison with NaN is false.
IsFresh(timestamp, now) ==
    LET t == ToNumber(timestamp)
    IN  ~t.nan /\ now - t.n < CACHE_DURATION_MS

\* getCachedRepos: the value it returns for the stored item, when the storage
\* can or cannot be read, at time now.  Every throw inside it is caught and
\* gives null.
getCachedRepos(item, readable, now) ==
    IF ~readable THEN Null
    ELSE IF ~item.present \/ item.text = "empty" THEN Null
    ELSE LET parsed == JSONparse(item)
         IN  IF ~parsed.ok THEN Null
             ELSE IF parsed.json.type = "null" THEN Null
             ELSE IF IsFresh(parsed.json.timestamp, now)
                  THEN parsed.json.repos
                  ELSE Null

\* Faulty variant of setCachedRepos: only the first page is stored.
setCachedReposFirstPageOnly(item, repos, now, accepted) ==
    [item |-> IF accepted
              THEN JSONstringify(JsonObject(
                      Arr(IF repos = <<>> THEN <<>> ELSE <<Head(repos)>>),
                      TsNumber(now)))
              ELSE item,
     threw |-> FALSE]

\* Faulty variant of setCachedRepos: no try/catch around setItem.
setCachedReposUncaught(item, repos, now, accepted) ==
    [item |-> IF accepted
              THEN JSONstringify(JsonObject(Arr(repos), TsNumber(now)))
              ELSE item,
     threw |-> ~accepted]

\* setCachedRepos: the stored item after the call, and whether the call
\* threw.  setItem replaces the item when the storage accepts the write; when
\* it throws the item stays as it was and the exception is caught.
setCachedRepos(item, repos, now, accepted) ==
    [item |-> IF accepted
              THEN JSONstringify(JsonObject(Arr(repos), TsNumber(now)))
              ELSE item,
     threw |-> FALSE]

(* ------------------------ errors (lines 213-221) ----------------------- *)
\* The X-RateLimit-Reset header of a response: absent, text, or a number.
NoHeader == [present |-> FALSE, numeric |-> FALSE, n |-> 0]
TextHeader == [present |-> TRUE, numeric |-> FALSE, n |-> 0]
NumericHeader(n) == [present |-> TRUE, numeric |-> TRUE, n |-> n]
ResetHeaders == {NoHeader, TextHeader, NumericHeader(3661), NumericHeader(45296)}

\* Faulty variant of ResetMillis: the header is taken as milliseconds.
ResetMillisUnscaled(header) ==
    IF ~header.present THEN [nan |-> FALSE, n |-> 0]
    ELSE IF ~header.numeric THEN [nan |-> TRUE, n |-> 0]
    ELSE [nan |-> FALSE, n |-> header.n]

\* resetTime * 1000: null is 0, text is NaN.
ResetMillis(header) ==
    IF ~header.present THEN [nan |-> FALSE, n |-> 0]
    ELSE IF ~header.numeric THEN [nan |-> TRUE, n |-> 0]
    ELSE [nan |-> FALSE, n |-> header.n * 1000]

\* new Date(ms).toLocaleTimeString() in the zone tz seconds east of UTC.
InvalidDate == [valid |-> FALSE, h |-> 0, m |-> 0, s |-> 0]
toLocaleTimeString(ms, zone) ==
    IF ms.nan THEN InvalidDate
    ELSE LET sec == ((ms.n \div 1000) + zone) % 86400
         IN  [valid |-> TRUE, h |-> sec \div 3600,
              m |-> (sec % 3600) \div 60, s |-> sec % 60]

NoError == [kind |-> "none", code |-> 0, time |-> InvalidDate]
\* `API rate limit exceeded. Resets at ${resetDate.toLocaleTimeString()}`
RateLimitError(header, zone) ==
    [kind |-> "rateLimit", code |-> 0,
     time |-> toLocaleTimeString(ResetMillis(header), zone)]
\* `GitHub API error: ${response.status}`
StatusError(status) == [kind |-> "status", code |-> status, time |-> InvalidDate]
\* fetch() rejected; response.json() rejected; a TypeError while rendering.
NetworkError == [kind |-> "network", code |-> 0, time |-> InvalidDate]
SyntaxError == [kind |-> "syntax", code |-> 0, time |-> InvalidDate]
TypeError == [kind |-> "type", code |-> 0, time |-> InvalidDate]
\* setItem refused the write.
QuotaError == [kind |-> "quota", code |-> 0, time |-> InvalidDate]

\* The error thrown for a response that is not ok.
ResponseError(status, header, zone) ==
    IF status = RateLimitStatus THEN RateLimitError(header, zone)
    ELSE StatusError(status)

(* ---------------------- sorting (lines 256-265) ------------------------- *)
\* The fields of the record at position r[2] of upstream page r[1] that the
\* comparator reads.
stargazers_count(r) == (r[1] + r[2]) % 3
updated_at(r) == (3 * r[1] + r[2]) % 4

\* Faulty variant of compare: the update date is not looked at.
compareStarsOnly(a, b) == stargazers_count(b) - stargazers_count(a)

\* The comparator handed to Array.prototype.sort.
compare(a, b) ==
    IF stargazers_count(b) # stargazers_count(a)
    THEN stargazers_count(b) - stargazers_count(a)
    ELSE updated_at(b) - updated_at(a)

\* Array.prototype.sort is stable: x goes before the first element it is
\* strictly ordered before.
RECURSIVE Insert(_, _)
Insert(s, x) ==
    IF s = <<>> THEN <<x>>
    ELSE IF compare(x, Head(s)) < 0 THEN <<x>> \o s
    ELSE <<Head(s)>> \o Insert(Tail(s), x)

RECURSIVE SortFrom(_, _)
SortFrom(done, rest) ==
    IF rest = <<>> THEN done
    ELSE SortFrom(Insert(done, Head(rest)), Tail(rest))

\* sortRepos: repos.sort(...) throws a TypeError on a value that is no array.
sortRepos(repos) ==
    IF repos.type = "array"
    THEN [threw |-> FALSE, list |-> SortFrom(<<>>, Flatten(repos.items))]
    ELSE [threw |-> TRUE, list |-> <<>>]

(* --------------------- rendering (lines 272-349) ----------------------- *)
\* Faulty variant of slice: the end index is taken as inclusive.
sliceInclusive(s, count) ==
    SubSeq(s, 1, IF Len(s) < count + 1 THEN Len(s) ELSE count + 1)

\* sortedRepos.slice(0, count)
slice(s, count) == SubSeq(s, 1, IF Len(s) < count THEN Len(s) ELSE count)

\* Text is a sequence of characters; c repeated n times.
Repeat(c, n) == [i \in 1 .. n |-> c]

\* The description field of a record: null or a string.
NoDescription == [type |-> "null", text |-> <<>>]
Text(t) == [type |-> "string", text |-> t]

\* The description of the record at position r[2] of upstream page r[1]:
\* text with markup in it, plain text, none, the empty string, or text of
\* 50, 100, 101 or 150 characters.
description(r) ==
    CASE (r[1] + 2 * r[2]) % 8 = 3 -> Text(<<"<", "i", "m", "g", ">", "&">>)
      [] (r[1] + 2 * r[2]) % 8 = 4 -> Text(<<"o", "k">>)
      [] (r[1] + 2 * r[2]) % 8 = 5 -> NoDescription
      [] (r[1] + 2 * r[2]) % 8 = 6 -> Text(<<>>)
      [] (r[1] + 2 * r[2]) % 8 = 7 -> Text(Repeat("a", 50))
      [] (r[1] + 2 * r[2]) % 8 = 0 -> Text(Repeat("b", DescriptionLimit))
      [] (r[1] + 2 * r[2]) % 8 = 1 ->
            Text(Repeat("c", DescriptionLimit) \o <<"d">>)
      [] OTHER -> Text(Repeat("e", DescriptionLimit) \o Repeat("f", 50))

\* 'No description provided'
Placeholder ==
    <<"N", "o", " ", "d", "e", "s", "c", "r", "i", "p", "t", "i", "o", "n", " ",
      "p", "r", "o", "v", "i", "d", "e", "d">>

\* Faulty variant of truncatedDesc: 100 characters are already too long.
truncatedDescInclusive(d) ==
    LET text == IF d.type = "string" /\ d.text # <<>> THEN d.text
                ELSE Placeholder
    IN  IF Len(text) >= DescriptionLimit
        THEN SubSeq(text, 1, DescriptionLimit) \o <<".", ".", ".">>
        ELSE text

\* The description paragraph of a card (lines 274-277, 289): the text or
\* the placeholder, cut after 100 characters, embedded as it is.
truncatedDesc(d) ==
    LET text == IF d.type = "string" /\ d.text # <<>> THEN d.text
                ELSE Placeholder
    IN  IF Len(text) > DescriptionLimit
        THEN SubSeq(text, 1, DescriptionLimit) \o <<".", ".", ".">>
        ELSE text

\* renderRepoCard: the card of one record.
renderRepoCard(repo) ==
    [href |-> repo, name |-> repo, stars |-> stargazers_count(repo),
     description |-> truncatedDesc(description(repo))]

\* What the container holds: the page's static markup, the skeletons, the
\* cards, or the error fragment with its fallback link.
StaticMarkup ==
    [kind |-> "Static", skeletons |-> 0, cards |-> <<>>,
     message |-> NoError, fallbackLink |-> FALSE]
renderLoadingSkeletons(count) ==
    [kind |-> "Loading", skeletons |-> count, cards |-> <<>>,
     message |-> NoError, fallbackLink |-> FALSE]
renderError(message) ==
    [kind |-> "Error", skeletons |-> 0, cards |-> <<>>,
     message |-> message, fallbackLink |-> TRUE]
\* Faulty variant of renderCards: the renderer numbers its calls and writes
\* the number into the card.
renderCardsCounting(visibleRepos) ==
    [kind |-> "Success", skeletons |-> 0,
     cards |-> [i \in 1 .. Len(visibleRepos) |->
                  [renderRepoCard(visibleRepos[i]) EXCEPT !.stars = i]],
     message |-> NoError, fallbackLink |-> FALSE]
renderCards(visibleRepos) ==
    [kind |-> "Success", skeletons |-> 0,
     cards |-> [i \in 1 .. Len(visibleRepos) |-> renderRepoCard(visibleRepos[i])],
     message |-> NoError, fallbackLink |-> FALSE]

(* ------------------------------ state ---------------------------------- *)
VARIABLES
    clock,          \* Date.now()
    ticks,          \* how often the clock has moved
    zone,           \* the local time zone, seconds east of UTC
    readable,       \* whether localStorage can be used at all
    store,          \* the item under CACHE_KEY
    hasContainer,   \* whether the page has the #repos-grid element
    container,      \* its innerHTML
    classList,      \* its classes
    timers,         \* pending setTimeout(..., 100) callbacks
    loaded,         \* whether DOMContentLoaded has fired
    started,        \* how many runs of the pipeline have been started
    refreshes,      \* how many calls of refreshGitHubRepos have been made
    themeItem,      \* the item under STORAGE_KEY
    prefersDark,    \* whether (prefers-color-scheme: dark) matches
    dataTheme,      \* the data-theme attribute of the document element
    ariaLabel,      \* the aria-label of the theme toggle button
    themePhase,     \* initTheme: not yet called, done, or thrown out of
    lastToggle,     \* the theme set by the most recent toggle click, and
                    \* whether localStorage took it
    hidden,         \* document.hidden
    reduce,         \* whether (prefers-reduced-motion: reduce) matches
    isReducedMotion,\* the particle script's copy of it
    animationId,    \* the id of the last requestAnimationFrame call, 0: none
    pending,        \* the ids of the animation frame callbacks pending
    frameCount,     \* how many requestAnimationFrame calls have been made
    particlePhase,  \* init: not yet called, returned early, or listening
    hasToggle,      \* whether the page has a .nav-mobile-toggle element
    hasNavLinks,    \* whether the page has a .nav-links element
    hasNav,         \* whether the page has a .nav element
    navOpen,        \* whether .nav-links has the class 'open'
    ariaExpanded,   \* the aria-expanded attribute of the toggle
    bodyOverflow,   \* document.body.style.overflow
    hash,           \* the fragment of the page's URL
    scrollY,        \* where the window has been scrolled to
    pushes,         \* how many history.pushState calls have been made
    navPhase,       \* initAnimations: not yet called, or listening
    runs            \* the runs: locals of fetchGitHubRepos / initGitHubRepos

vars ==
    <<clock, ticks, zone, readable, store, hasContainer, container, classList,
      timers, loaded, started, refreshes, runs, themeItem, prefersDark,
      dataTheme, ariaLabel, themePhase, lastToggle, hidden, reduce,
      isReducedMotion, animationId, pending, frameCount, particlePhase,
      hasToggle, hasNavLinks, hasNav, navOpen, ariaExpanded, bodyOverflow,
      hash, scrollY, pushes, navPhase>>

\* The state of the navigation.
navVars ==
    <<hasToggle, hasNavLinks, hasNav, navOpen, ariaExpanded, bodyOverflow,
      hash, scrollY, pushes, navPhase>>

\* The state of the repository pipeline.
pipelineVars ==
    <<clock, ticks, zone, readable, store, hasContainer, container, classList,
      timers, loaded, started, refreshes, runs>>

\* The state of the particle background.
particleVars ==
    <<hidden, reduce, isReducedMotion, animationId, pending, frameCount,
      particlePhase>>

\* The state of the theme.
themeVars == <<themeItem, prefersDark, dataTheme, ariaLabel, themePhase, lastToggle>>

(* ------------------- theme (theme-toggle.js 20-132) -------------------- *)
\* The item under STORAGE_KEY: null or a string.
NoTheme == [present |-> FALSE, value |-> ""]
ThemeItem(v) == [present |-> TRUE, value |-> v]

\* The items a page can find under STORAGE_KEY: nothing, what saveTheme
\* writes, and strings written by something else.
ThemeItems ==
    {NoTheme, ThemeItem("dark"), ThemeItem("light"), ThemeItem(""),
     ThemeItem("blue")}

\* Faulty variant of getPreferredTheme: the system preference goes first.
getPreferredThemeSystemFirst(item, usable, prefersLight) ==
    [threw |-> ~usable,
     theme |-> IF ~usable THEN "none"
               ELSE IF prefersLight THEN "light"
               ELSE IF item.present /\ item.value # "" THEN item.value
               ELSE "dark"]

\* getPreferredTheme (lines 27-41): getItem is not guarded, so it throws
\* when localStorage cannot be used; a non-empty stored string is returned
\* as it is.
getPreferredTheme(item, usable, prefersLight) ==
    IF ~usable THEN [threw |-> TRUE, theme |-> "none"]
    ELSE IF item.present /\ item.value # ""
         THEN [threw |-> FALSE, theme |-> item.value]
    ELSE IF prefersLight THEN [threw |-> FALSE, theme |-> "light"]
    ELSE [threw |-> FALSE, theme |-> "dark"]

\* updateToggleButtons (lines 97-106): the label for a theme.
ToggleLabel(theme) ==
    IF theme = "dark" THEN "Switch to light theme" ELSE "Switch to dark theme"

\* applyTheme (lines 48-68): the attribute and the button label.
applyTheme(theme) ==
    /\ dataTheme' = theme
    /\ ariaLabel' = ToggleLabel(theme)

\* Faulty variant of saveTheme: nothing is written.
saveThemeNothing(item, theme, accepted) == item

\* saveTheme (lines 74-80): the item after the guarded setItem.
saveTheme(item, theme, accepted) ==
    IF accepted THEN ThemeItem(theme) ELSE item

\* No toggle click has been made.
NoToggle == [theme |-> "none", saved |-> FALSE]

\* The page before initTheme has been called, in a document without the
\* attribute.
ThemeLoads(items, schemes) ==
    /\ themeItem \in items
    /\ prefersDark \in schemes
    /\ dataTheme = "none"
    /\ ariaLabel = "none"
    /\ themePhase = "loading"
    /\ lastToggle = NoToggle

\* A page for which the theme is left out.
ThemeNotLoaded == ThemeLoads({NoTheme}, {TRUE})

\* initTheme (lines 111-132), called once by the DOMContentLoaded handler:
\* apply the preferred theme and attach the listeners; a throw of
\* getPreferredTheme leaves the page without either.
initTheme ==
    /\ themePhase = "loading"
    /\ LET theme == getPreferredTheme(themeItem, readable, ~prefersDark)
       IN  IF theme.threw
           THEN /\ themePhase' = "failed"
                /\ UNCHANGED <<dataTheme, ariaLabel>>
           ELSE /\ themePhase' = "ready"
                /\ applyTheme(theme.theme)
    /\ UNCHANGED <<themeItem, prefersDark, lastToggle, navVars, pipelineVars,
                   particleVars>>

\* Faulty variant of toggleTheme: the new theme is applied, not saved.
toggleThemeUnsaved ==
    /\ themePhase = "ready"
    /\ LET newTheme == IF dataTheme = "dark" THEN "light" ELSE "dark"
       IN  /\ applyTheme(newTheme)
           /\ lastToggle' = [theme |-> newTheme, saved |-> FALSE]
    /\ UNCHANGED <<themeItem, prefersDark, themePhase, navVars, pipelineVars,
                   particleVars>>

\* toggleTheme (lines 85-91), the click listener of the toggle button.
toggleTheme ==
    /\ themePhase = "ready"
    /\ LET currentTheme == IF dataTheme = "none" THEN "dark" ELSE dataTheme
           newTheme == IF currentTheme = "dark" THEN "light" ELSE "dark"
       IN  /\ applyTheme(newTheme)
           /\ \E accepted \in BOOLEAN :
                 /\ themeItem' = saveTheme(themeItem, newTheme, accepted)
                 /\ lastToggle' = [theme |-> newTheme, saved |-> accepted]
    /\ UNCHANGED <<prefersDark, themePhase, navVars, pipelineVars, particleVars>>

\* Faulty variant of the change listener: it follows the system whatever
\* is stored.
SchemeChangeAlways ==
    /\ prefersDark' = ~prefersDark
    /\ IF themePhase = "ready"
       THEN applyTheme(IF prefersDark' THEN "dark" ELSE "light")
       ELSE UNCHANGED <<dataTheme, ariaLabel>>
    /\ UNCHANGED <<themeItem, themePhase, lastToggle, navVars, pipelineVars,
                   particleVars>>

\* The system colour scheme changes; the listener of lines 123-128, if
\* attached, applies it when getItem returns nothing or the empty string.
SchemeChange ==
    /\ prefersDark' = ~prefersDark
    /\ IF themePhase = "ready" /\ ~(themeItem.present /\ themeItem.value # "")
       THEN applyTheme(IF prefersDark' THEN "dark" ELSE "light")
       ELSE UNCHANGED <<dataTheme, ariaLabel>>
    /\ UNCHANGED <<themeItem, themePhase, lastToggle, navVars, pipelineVars,
                   particleVars>>

(* ------------ particle background (theme-toggle.js 148-421) ------------ *)
\* The page before init has been called.
ParticleLoads(hiddens, reduces) ==
    /\ hidden \in hiddens
    /\ reduce \in reduces
    /\ isReducedMotion = FALSE
    /\ animationId = 0
    /\ pending = {}
    /\ frameCount = 0
    /\ particlePhase = "loading"

\* A page for which the particle background is left out.
ParticlesNotLoaded == ParticleLoads({FALSE}, {FALSE})

\* cancelAnimationFrame(animationId)
cancelAnimationFrame(ids, id) == ids \ {id}

\* Faulty variant of animate: the reduced-motion flag is not looked at.
animateAlways(ids, reduced) ==
    /\ frameCount' = frameCount + 1
    /\ animationId' = frameCount + 1
    /\ pending' = ids \cup {frameCount + 1}

\* animate (lines 324-339) with ids pending and the flag as given: nothing
\* under reduced motion, otherwise a frame is drawn and the next requested.
animate(ids, reduced) ==
    IF reduced
    THEN /\ pending' = ids
         /\ UNCHANGED <<animationId, frameCount>>
    ELSE /\ frameCount' = frameCount + 1
         /\ animationId' = frameCount + 1
         /\ pending' = ids \cup {frameCount + 1}

\* init (lines 371-403), on DOMContentLoaded: under reduced motion it
\* returns before anything is set up; otherwise the listeners are attached
\* and the loop is started.
init ==
    /\ particlePhase = "loading"
    /\ frameCount < MaxFrames
    /\ isReducedMotion' = reduce
    /\ IF reduce
       THEN /\ particlePhase' = "off"
            /\ UNCHANGED <<animationId, pending, frameCount>>
       ELSE /\ particlePhase' = "on"
            /\ animate(pending, FALSE)
    /\ UNCHANGED <<hidden, reduce, navVars, pipelineVars, themeVars>>

\* The page is hidden or shown; handleVisibilityChange (lines 360-366) if
\* it is attached.
handleVisibilityChange ==
    /\ frameCount < MaxFrames
    /\ hidden' = ~hidden
    /\ IF particlePhase # "on"
       THEN UNCHANGED <<animationId, pending, frameCount>>
       ELSE IF hidden'
       THEN /\ pending' = cancelAnimationFrame(pending, animationId)
            /\ UNCHANGED <<animationId, frameCount>>
       ELSE animate(pending, isReducedMotion)
    /\ UNCHANGED <<reduce, isReducedMotion, particlePhase, navVars, pipelineVars,
                   themeVars>>

\* The reduced-motion preference changes; the listener of lines 391-399 if
\* it is attached.
ReducedMotionChange ==
    /\ frameCount < MaxFrames
    /\ reduce' = ~reduce
    /\ IF particlePhase # "on"
       THEN UNCHANGED <<isReducedMotion, animationId, pending, frameCount>>
       ELSE /\ isReducedMotion' = reduce'
            /\ IF reduce'
               THEN /\ pending' = cancelAnimationFrame(pending, animationId)
                    /\ UNCHANGED <<animationId, frameCount>>
               ELSE animate(pending, FALSE)
    /\ UNCHANGED <<hidden, particlePhase, navVars, pipelineVars, themeVars>>

\* The browser runs a pending animation frame callback, which it does for
\* a visible page only: animate.
AnimationFrame ==
    /\ ~hidden
    /\ frameCount < MaxFrames
    /\ \E id \in pending : animate(pending \ {id}, isReducedMotion)
    /\ UNCHANGED <<hidden, reduce, isReducedMotion, particlePhase,
                   navVars, pipelineVars, themeVars>>

\* particleSystem.restart (lines 415-419).  Before init has made the
\* canvas, createParticles throws and animate is not reached.
restart ==
    /\ particlePhase = "on"
    /\ frameCount < MaxFrames
    /\ animate(cancelAnimationFrame(pending, animationId), isReducedMotion)
    /\ UNCHANGED <<hidden, reduce, isReducedMotion, particlePhase,
                   navVars, pipelineVars, themeVars>>

(* ------------- navigation (animations.js 102-133, 138-165) ------------- *)
\* The in-page anchors of the page, a[href^="#"]: the bare "#", two that
\* name a section of the page, and one that names nothing.
Hrefs == {"#", "#about", "#projects", "#missing"}

\* document.querySelector(targetId) finds an element: its distance from the
\* top of the document, getBoundingClientRect().top + window.pageYOffset.
HasTarget(href) == href \in {"#about", "#projects"}
AboutTop == 600
ProjectsTop == 1200
ElementTop(href) == IF href = "#about" THEN AboutTop ELSE ProjectsTop

\* document.querySelector('.nav')?.offsetHeight || 0
NavOffsetHeight == 64
navHeight == IF hasNav THEN NavOffsetHeight ELSE 0

\* A document with the given elements, before initAnimations: the nav is
\* closed, aria-expanded is "false" and the body has no inline overflow.
NavLoads(toggles, navLinks, navs, hashes) ==
    /\ navPhase = "loading"
    /\ hasToggle \in toggles
    /\ hasNavLinks \in navLinks
    /\ hasNav \in navs
    /\ navOpen = FALSE
    /\ ariaExpanded = "false"
    /\ bodyOverflow = ""
    /\ hash \in hashes
    /\ scrollY = 0
    /\ pushes = 0

\* A page without animations.js.
NavNotLoaded ==
    /\ navPhase = "none"
    /\ hasToggle = FALSE
    /\ hasNavLinks = FALSE
    /\ hasNav = FALSE
    /\ navOpen = FALSE
    /\ ariaExpanded = "false"
    /\ bodyOverflow = ""
    /\ hash = ""
    /\ scrollY = 0
    /\ pushes = 0

\* initMobileNav has attached its two listeners (line 142).
MobileNavListens == hasToggle /\ hasNavLinks

\* initAnimations: initSmoothScroll and initMobileNav attach their listeners.
initAnimations ==
    /\ navPhase = "loading"
    /\ navPhase' = "on"
    /\ UNCHANGED <<hasToggle, hasNavLinks, hasNav, navOpen, ariaExpanded,
                   bodyOverflow, hash, scrollY, pushes, pipelineVars,
                   themeVars, particleVars>>

\* A click on the toggle (lines 144-153); the document's listener then finds
\* the target inside the toggle.
ToggleClick ==
    /\ navPhase = "on"
    /\ MobileNavListens
    /\ navOpen' = ~navOpen
    /\ ariaExpanded' = IF navOpen' THEN "true" ELSE "false"
    /\ bodyOverflow' = IF navOpen' THEN "hidden" ELSE ""
    /\ UNCHANGED <<hasToggle, hasNavLinks, hasNav, hash, scrollY, pushes,
                   navPhase, pipelineVars, themeVars, particleVars>>

\* A click on something that is no anchor, outside the nav links and the
\* toggle (lines 156-164).
OutsideClick ==
    /\ navPhase = "on"
    /\ MobileNavListens
    /\ navOpen
    /\ navOpen' = FALSE
    /\ ariaExpanded' = "false"
    /\ bodyOverflow' = ""
    /\ UNCHANGED <<hasToggle, hasNavLinks, hasNav, hash, scrollY, pushes,
                   navPhase, pipelineVars, themeVars, particleVars>>

\* A click on the anchor with the given href, which is inside the nav links
\* or not.  The anchor's listener runs first (lines 104-131); the event then
\* bubbles to the document's listener (156-164); a click whose default was
\* not prevented follows the link.
AnchorClick(href, inside) ==
    /\ navPhase = "on"
    /\ inside => hasNavLinks
    /\ pushes < MaxPushes
    /\ LET smooth == href # "#" /\ HasTarget(href)
           openAfterAnchor == IF smooth THEN FALSE ELSE navOpen
           closes == MobileNavListens /\ openAfterAnchor /\ ~inside
       IN  /\ navOpen' = IF closes THEN FALSE ELSE openAfterAnchor
           /\ ariaExpanded' = IF closes THEN "false" ELSE ariaExpanded
           /\ bodyOverflow' = IF closes THEN "" ELSE bodyOverflow
           /\ scrollY' = IF smooth THEN ElementTop(href) - navHeight
                         ELSE IF href = "#" THEN 0 ELSE scrollY
           /\ hash' = IF href = "#" THEN "" ELSE href
           /\ pushes' = IF smooth THEN pushes + 1 ELSE pushes
    /\ UNCHANGED <<hasToggle, hasNavLinks, hasNav, navPhase, pipelineVars,
                   themeVars, particleVars>>

\* The page is reloaded: a new document, the same localStorage and
\* environment.
Reload ==
    /\ themePhase # "loading"
    /\ particlePhase # "loading"
    /\ themePhase' = "loading"
    /\ dataTheme' = "none"
    /\ ariaLabel' = "none"
    /\ particlePhase' = "loading"
    /\ isReducedMotion' = FALSE
    /\ animationId' = 0
    /\ pending' = {}
    /\ UNCHANGED <<themeItem, prefersDark, lastToggle, hidden, reduce,
                   frameCount, navVars, pipelineVars>>

\* A run that has not been started.
IdleRun ==
    [pc |-> "idle", page |-> 0, allRepos |-> <<>>, requested |-> <<>>,
     cachedRepos |-> Null,
     response |-> [status |-> 0, header |-> NoHeader],
     result |-> Null, error |-> NoError, cacheWrites |-> 0, domWrites |-> 0]

\* The entries a page can find in localStorage when it loads.
OnePage == <<Chunk(1, 2)>>
StoredEntry(repos, timestamp) == JSONstringify(JsonObject(repos, timestamp))
InitialItems ==
    {Absent, EmptyString, Garbage, JSONstringify(JsonNull),
     JSONstringify(JsonPrimitive)}
    \cup {StoredEntry(Arr(OnePage), TsNumber(t)) :
            t \in {PageLoadTime - CACHE_DURATION_MS - 1,
                   PageLoadTime - CACHE_DURATION_MS,
                   PageLoadTime - CACHE_DURATION_MS + 1,
                   PageLoadTime + 1}}
    \cup {StoredEntry(r, TsNumber(PageLoadTime - 1)) :
            r \in {Arr(<<>>), Str, Null, Undefined}}
    \cup {StoredEntry(Arr(OnePage), t) :
            t \in {TsUndefined, TsNull, TsText,
                   TsNumericString(PageLoadTime - 1)}}

\* The page as it loads, with one of items in localStorage, in one of zones,
\* with or without the container.
Loads(items, zones, containers) ==
    /\ clock = PageLoadTime
    /\ ticks = 0
    /\ zone \in zones
    /\ readable \in BOOLEAN
    /\ store \in (IF readable THEN items ELSE {Absent})
    /\ hasContainer \in containers
    /\ container = StaticMarkup
    /\ classList = {}
    /\ timers = 0
    /\ loaded = FALSE
    /\ started = 0
    /\ refreshes = 0
    /\ runs = [r \in Runs |-> IdleRun]

Init == Loads(InitialItems, PipelineZones, BOOLEAN) /\ ThemeNotLoaded /\ ParticlesNotLoaded /\ NavNotLoaded

(* ------------------- fetchGitHubRepos (lines 188-249) ------------------ *)
\* Faulty variant of fetchGitHubRepos: the cache is read but page 1 is requested
\* whatever it returned.
fetchGitHubReposIgnoresCache(run, item) ==
    [run EXCEPT !.cachedRepos = getCachedRepos(item, readable, clock),
                !.pc = "awaitFetch", !.page = 1, !.allRepos = <<>>,
                !.requested = <<1>>]

\* The call up to its first await: the cache is read; a truthy value is
\* returned at once, otherwise page 1 is requested.
fetchGitHubRepos(run, item) ==
    LET cachedRepos == getCachedRepos(item, readable, clock)
        read == [run EXCEPT !.cachedRepos = cachedRepos]
    IN  IF Truthy(cachedRepos)
        THEN [read EXCEPT !.pc = "fetchDone", !.result = cachedRepos]
        ELSE [read EXCEPT !.pc = "awaitFetch", !.page = 1,
                          !.allRepos = <<>>, !.requested = <<1>>]

\* Faulty variant of Rejected: the pages received so far are handed back
\* with the error.
RejectedReturnsPartial(run, error) ==
    [run EXCEPT !.pc = "fetchFailed", !.error = error,
                !.result = Arr(run.allRepos),
                !.page = 0, !.allRepos = <<>>]

\* The promise of fetchGitHubRepos rejects with error: the catch block logs
\* and rethrows.
Rejected(run, error) ==
    [run EXCEPT !.pc = "fetchFailed", !.error = error,
                !.page = 0, !.allRepos = <<>>]

\* The continuation of an initGitHubRepos run is queued: its await has
\* settled.  It is a microtask, so it runs before the next event is handled.
\* (The continuation of a direct caller of fetchGitHubRepos is not part of
\* the page.)
ContinuationQueued ==
    loaded /\ \E r \in Runs : runs[r].pc \in {"fetchDone", "fetchFailed"}

\* `await fetch(...)` resolves with a response of the given status.
FetchResolves(r, headers) ==
    /\ ~ContinuationQueued
    /\ runs[r].pc = "awaitFetch"
    /\ \E status \in {200} \cup ErrorStatuses :
       \E header \in (IF status = RateLimitStatus THEN headers ELSE {NoHeader}) :
          LET run == [runs[r] EXCEPT
                        !.response = [status |-> status, header |-> header]]
          IN  runs' = [runs EXCEPT ![r] =
                         IF status >= 200 /\ status <= 299
                         THEN [run EXCEPT !.pc = "awaitJson"]
                         ELSE Rejected(run,
                                       ResponseError(status, header, zone))]
    /\ UNCHANGED <<navVars, particleVars, themeVars, refreshes, clock, ticks, zone, readable, store, hasContainer,
                   container, classList, timers, loaded, started>>

\* `await fetch(...)` rejects: a transport failure.
FetchRejects(r) ==
    /\ ~ContinuationQueued
    /\ runs[r].pc = "awaitFetch"
    /\ runs' = [runs EXCEPT ![r] = Rejected(@, NetworkError)]
    /\ UNCHANGED <<navVars, particleVars, themeVars, refreshes, clock, ticks, zone, readable, store, hasContainer,
                   container, classList, timers, loaded, started>>

\* The loop has ended: setCachedRepos(allRepos), then return allRepos.
Returned(run, allRepos) ==
    [run EXCEPT !.pc = "fetchDone", !.result = Arr(allRepos),
                !.cacheWrites = @ + 1, !.page = 0, !.allRepos = <<>>]

\* Faulty variant of NextTurn: an empty page does not end the loop, the same
\* page is asked for again.
NextTurnIgnoresEmptyPage(run, n) ==
    IF n = 0 THEN [run EXCEPT !.pc = "awaitFetch"]
    ELSE LET allRepos == Append(run.allRepos, Chunk(run.page, n))
             page == run.page + 1
         IN  IF page > MaxPages THEN Returned(run, allRepos)
             ELSE [run EXCEPT !.pc = "awaitFetch", !.allRepos = allRepos,
                              !.page = page,
                              !.requested = Append(@, page)]

\* Faulty variant of NextTurn: a page shorter than per_page ends the loop.
NextTurnStopsOnShortPage(run, n) ==
    IF n = 0 THEN Returned(run, run.allRepos)
    ELSE LET allRepos == Append(run.allRepos, Chunk(run.page, n))
             page == run.page + 1
         IN  IF page > MaxPages \/ n < PerPage THEN Returned(run, allRepos)
             ELSE [run EXCEPT !.pc = "awaitFetch", !.allRepos = allRepos,
                              !.page = page,
                              !.requested = Append(@, page)]

\* Faulty variant of NextTurn: the safety check is off by one.
NextTurnOffByOne(run, n) ==
    IF n = 0 THEN Returned(run, run.allRepos)
    ELSE LET allRepos == Append(run.allRepos, Chunk(run.page, n))
             page == run.page + 1
         IN  IF page >= MaxPages THEN Returned(run, allRepos)
             ELSE [run EXCEPT !.pc = "awaitFetch", !.allRepos = allRepos,
                              !.page = page,
                              !.requested = Append(@, page)]

\* Faulty variant of NextTurn: the page is put in front of the accumulator.
NextTurnPrepends(run, n) ==
    IF n = 0 THEN Returned(run, run.allRepos)
    ELSE LET allRepos == <<Chunk(run.page, n)>> \o run.allRepos
             page == run.page + 1
         IN  IF page > MaxPages THEN Returned(run, allRepos)
             ELSE [run EXCEPT !.pc = "awaitFetch", !.allRepos = allRepos,
                              !.page = page,
                              !.requested = Append(@, page)]

\* The rest of one turn of the loop for a page of n records: stop on an
\* empty page; otherwise append, count the page, stop past page 10 or
\* request the next page.
NextTurn(run, n) ==
    IF n = 0 THEN Returned(run, run.allRepos)
    ELSE LET allRepos == Append(run.allRepos, Chunk(run.page, n))
             page == run.page + 1
         IN  IF page > MaxPages THEN Returned(run, allRepos)
             ELSE [run EXCEPT !.pc = "awaitFetch", !.allRepos = allRepos,
                              !.page = page,
                              !.requested = Append(@, page)]

\* `await response.json()` resolves with a page of n records; the upstream
\* holds records on the pages in nonEmpty only.
JsonResolves(r, sizes, nonEmpty) ==
    /\ ~ContinuationQueued
    /\ runs[r].pc = "awaitJson"
    /\ \E n \in (IF runs[r].page \in nonEmpty THEN sizes ELSE {0}) :
          LET run == NextTurn(runs[r], n)
          IN  IF run.pc = "fetchDone"
              THEN \E accepted \in (IF readable THEN BOOLEAN ELSE {FALSE}) :
                      LET written == setCachedRepos(store, run.result.items,
                                                    clock, accepted)
                      IN  /\ store' = written.item
                          /\ runs' = [runs EXCEPT ![r] =
                                        IF written.threw
                                        THEN Rejected(run, QuotaError)
                                        ELSE run]
              ELSE /\ store' = store
                   /\ runs' = [runs EXCEPT ![r] = run]
    /\ UNCHANGED <<navVars, particleVars, themeVars, refreshes, clock, ticks, zone, readable, hasContainer, container,
                   classList, timers, loaded, started>>

\* `await response.json()` rejects: the body is no JSON.
JsonRejects(r) ==
    /\ ~ContinuationQueued
    /\ runs[r].pc = "awaitJson"
    /\ runs' = [runs EXCEPT ![r] = Rejected(@, SyntaxError)]
    /\ UNCHANGED <<navVars, particleVars, themeVars, refreshes, clock, ticks, zone, readable, store, hasContainer,
                   container, classList, timers, loaded, started>>

(* ------------------- initGitHubRepos (lines 355-387) ------------------- *)
\* A run that has ended after writing the container domWrites times: its
\* locals and its promise are gone.
DoneRun(domWrites) == [IdleRun EXCEPT !.pc = "done", !.domWrites = domWrites]

\* Faulty variant of initGitHubRepos: the loading skeletons are never shown.
initGitHubReposNoLoading(r, item) ==
    /\ store' = item
    /\ container' = container
    /\ runs' = [runs EXCEPT ![r] =
                  IF ~hasContainer THEN DoneRun(0)
                  ELSE fetchGitHubRepos([@ EXCEPT !.domWrites = 1], item)]

\* The call up to its await, as run r, with item under the cache key.
initGitHubRepos(r, item) ==
    /\ store' = item
    /\ IF ~hasContainer
       THEN /\ runs' = [runs EXCEPT ![r] = DoneRun(0)]
            /\ container' = container
       ELSE /\ container' = renderLoadingSkeletons(SkeletonCount)
            /\ runs' = [runs EXCEPT ![r] =
                          fetchGitHubRepos([@ EXCEPT !.domWrites = 1], item)]

\* The await resolves: sort, slice, render, and the stagger cue.  A throw
\* on the way lands in the catch block.
RenderRepos(r) ==
    /\ runs[r].pc = "fetchDone"
    /\ LET sortedRepos == sortRepos(runs[r].result)
       IN  IF sortedRepos.threw
           THEN /\ container' = renderError(TypeError)
                /\ runs' = [runs EXCEPT ![r] = DoneRun(@.domWrites + 1)]
                /\ UNCHANGED <<classList, timers>>
           ELSE /\ container' =
                      renderCards(slice(sortedRepos.list, MAX_VISIBLE_REPOS))
                /\ runs' = [runs EXCEPT ![r] = DoneRun(@.domWrites + 1)]
                /\ classList' = classList \cup {"stagger-children"}
                /\ timers' = timers + 1
    /\ UNCHANGED <<navVars, particleVars, themeVars, refreshes, clock, ticks, zone, readable, store, hasContainer, loaded,
                   started>>

\* Faulty variant of RenderFailure: the catch block starts over with page 1.
RenderFailureRetries(r) ==
    /\ runs[r].pc = "fetchFailed"
    /\ runs' = [runs EXCEPT ![r].pc = "awaitFetch", ![r].page = 1,
                            ![r].requested = Append(@, 1)]
    /\ UNCHANGED <<navVars, particleVars, themeVars, refreshes, clock, ticks, zone, readable, store, hasContainer,
                   container, classList, timers, loaded, started>>

\* The await rejects: the catch block renders the error.
RenderFailure(r) ==
    /\ runs[r].pc = "fetchFailed"
    /\ container' = renderError(runs[r].error)
    /\ runs' = [runs EXCEPT ![r] = DoneRun(@.domWrites + 1)]
    /\ UNCHANGED <<navVars, particleVars, themeVars, refreshes, clock, ticks, zone, readable, store, hasContainer,
                   classList, timers, loaded, started>>

\* The setTimeout callback of the stagger cue.
StaggerTimeout ==
    /\ ~ContinuationQueued
    /\ timers > 0
    /\ timers' = timers - 1
    /\ classList' = classList \cup {"visible"}
    /\ UNCHANGED <<navVars, particleVars, themeVars, refreshes, clock, ticks, zone, readable, store, hasContainer,
                   container, loaded, started, runs>>

\* The DOMContentLoaded handler (lines 18-40) starts the first run.
DOMContentLoaded ==
    /\ ~loaded
    /\ loaded' = TRUE
    /\ started' = 1
    /\ initGitHubRepos(1, store)
    /\ UNCHANGED <<navVars, particleVars, themeVars, refreshes, clock, ticks, zone, readable, hasContainer, classList,
                   timers>>

\* refreshGitHubRepos (lines 393-396): removeItem, then a new run.  With
\* localStorage unusable removeItem throws and no run is started.
refreshGitHubRepos ==
    /\ loaded
    /\ ~ContinuationQueued
    /\ refreshes < MaxRuns - 1
    /\ refreshes' = refreshes + 1
    /\ IF readable
       THEN /\ started' = started + 1
            /\ initGitHubRepos(started + 1, Absent)
       ELSE UNCHANGED <<store, container, started, runs>>
    /\ UNCHANGED <<navVars, particleVars, themeVars, clock, ticks, zone, readable, hasContainer,
                   classList, timers, loaded>>

\* Time passes.
Tick ==
    /\ ticks < MaxTicks
    /\ \E d \in TickSteps : clock' = clock + d
    /\ ticks' = ticks + 1
    /\ UNCHANGED <<navVars, particleVars, themeVars, refreshes, zone, readable, store, hasContainer, container, classList,
                   timers, loaded, started, runs>>

Next ==
    \/ DOMContentLoaded
    \/ refreshGitHubRepos
    \/ \E r \in Runs : FetchResolves(r, {NumericHeader(3661)})
    \/ \E r \in Runs : FetchRejects(r)
    \/ \E r \in Runs : JsonResolves(r, SmallPageSizes, 1 .. UpstreamPages)
    \/ \E r \in Runs : JsonRejects(r)
    \/ \E r \in Runs : RenderRepos(r)
    \/ \E r \in Runs : RenderFailure(r)
    \/ StaggerTimeout
    \/ Tick

Spec == Init /\ [][Next]_vars

(* ----------------- fetchGitHubRepos called on its own ------------------ *)
\* A caller other than initGitHubRepos awaits fetchGitHubRepos() once; the
\* upstream serves pages of any of PageSizes for as long as it is asked.
CallFetch ==
    /\ ~loaded
    /\ runs[1].pc = "idle"
    /\ started' = 1
    /\ runs' = [runs EXCEPT ![1] = fetchGitHubRepos(@, store)]
    /\ UNCHANGED <<navVars, particleVars, themeVars, refreshes, clock, ticks, zone, readable, store, hasContainer,
                   container, classList, timers, loaded>>

FetcherItems ==
    {Absent,
     StoredEntry(Arr(OnePage), TsNumber(PageLoadTime - CACHE_DURATION_MS)),
     StoredEntry(Arr(OnePage), TsNumber(PageLoadTime - CACHE_DURATION_MS + 1))}

InitFetcher == Loads(FetcherItems, TimeZones, {FALSE}) /\ ThemeNotLoaded /\ ParticlesNotLoaded /\ NavNotLoaded

NextFetcher ==
    \/ CallFetch
    \/ FetchResolves(1, ResetHeaders)
    \/ FetchRejects(1)
    \/ JsonResolves(1, PageSizes, Nat)
    \/ JsonRejects(1)
    \/ Tick

SpecFetcher == InitFetcher /\ [][NextFetcher]_vars

(* ---------------- the page loaded with a fresh cached list ------------- *)
\* The lists a fresh entry can hold: up to MaxChunks runs of 1, 2 or 20
\* records of any of CachedPages upstream pages, in any order.
CachedSizes == {1, 2, 20}
CachedLists ==
    UNION {[1 .. n -> {Chunk(p, k) : p \in 1 .. CachedPages, k \in CachedSizes}] :
             n \in 0 .. MaxChunks}
CachedItems ==
    {StoredEntry(Arr(l), TsNumber(PageLoadTime - 1)) : l \in CachedLists}

InitCached == Loads(CachedItems, PipelineZones, {TRUE}) /\ ThemeNotLoaded /\ ParticlesNotLoaded /\ NavNotLoaded

NextCached ==
    \/ DOMContentLoaded
    \/ RenderRepos(1)
    \/ StaggerTimeout

SpecCached == InitCached /\ [][NextCached]_vars

(* --------------- fetchGitHubRepos called again and again --------------- *)
\* A caller other than initGitHubRepos awaits fetchGitHubRepos(), and calls
\* it again when the call before has settled, while the clock moves on.
\* Faulty variant of CallRepeatedly: a call served from the cache stores the
\* entry again with the current time.
CallRepeatedlyRestamps ==
    /\ ~loaded
    /\ started < MaxCalls
    /\ runs[1].pc \in {"idle", "fetchDone", "fetchFailed"}
    /\ started' = started + 1
    /\ runs' = [runs EXCEPT ![1] = fetchGitHubRepos(IdleRun, store)]
    /\ store' = IF Truthy(runs'[1].cachedRepos)
                THEN StoredEntry(runs'[1].cachedRepos, TsNumber(clock))
                ELSE store
    /\ UNCHANGED <<navVars, particleVars, themeVars, refreshes, clock, ticks, zone, readable, hasContainer,
                   container, classList, timers, loaded>>

CallRepeatedly ==
    /\ ~loaded
    /\ started < MaxCalls
    /\ runs[1].pc \in {"idle", "fetchDone", "fetchFailed"}
    /\ started' = started + 1
    /\ runs' = [runs EXCEPT ![1] = fetchGitHubRepos(IdleRun, store)]
    /\ UNCHANGED <<navVars, particleVars, themeVars, refreshes, clock, ticks, zone, readable, store, hasContainer,
                   container, classList, timers, loaded>>

InitCalls == Loads(FetcherItems, PipelineZones, {FALSE}) /\ ThemeNotLoaded /\ ParticlesNotLoaded /\ NavNotLoaded

NextCalls ==
    \/ CallRepeatedly
    \/ FetchResolves(1, {NoHeader})
    \/ FetchRejects(1)
    \/ JsonResolves(1, SmallPageSizes, 1 .. UpstreamPages)
    \/ JsonRejects(1)
    \/ Tick

SpecCalls == InitCalls /\ [][NextCalls]_vars

(* --------------------- a page with animations.js ----------------------- *)
\* The navigation of a page; the repository pipeline, the theme and the
\* particle background are left out.
InitNav ==
    /\ Loads({Absent}, PipelineZones, {FALSE})
    /\ ThemeNotLoaded
    /\ ParticlesNotLoaded
    /\ NavLoads(BOOLEAN, BOOLEAN, BOOLEAN, {"", "#about"})

NextNav ==
    \/ initAnimations
    \/ ToggleClick
    \/ OutsideClick
    \/ \E href \in Hrefs, inside \in BOOLEAN : AnchorClick(href, inside)

SpecNav == InitNav /\ [][NextNav]_vars

(* ------------- the pipeline against an endless upstream ---------------- *)
\* The page pipeline with an upstream that has records on every page it is
\* asked for.  Every request that is outstanding is settled in the end, and
\* the event loop runs every continuation that is queued.
LiveItems ==
    {Absent, StoredEntry(Arr(OnePage), TsNumber(PageLoadTime - 1))}

InitLive == Loads(LiveItems, PipelineZones, {TRUE}) /\ ThemeNotLoaded /\ ParticlesNotLoaded /\ NavNotLoaded

FetchSettles(r) ==
    FetchResolves(r, {NumericHeader(3661)}) \/ FetchRejects(r)
JsonSettles(r) ==
    JsonResolves(r, SmallPageSizes, Nat) \/ JsonRejects(r)

\* The continuation of `await fetchGitHubRepos()` runs: the try block goes
\* on after line 368, or the catch block is entered, and the run ends.
ContinuationRuns(r) ==
    /\ runs[r].pc \in {"fetchDone", "fetchFailed"}
    /\ runs' = [runs EXCEPT ![r] = DoneRun(@.domWrites + 1)]

NextLive ==
    \/ DOMContentLoaded
    \/ refreshGitHubRepos
    \/ \E r \in Runs : FetchResolves(r, {NumericHeader(3661)})
    \/ \E r \in Runs : FetchRejects(r)
    \/ \E r \in Runs : JsonResolves(r, SmallPageSizes, Nat)
    \/ \E r \in Runs : JsonRejects(r)
    \/ \E r \in Runs : RenderRepos(r)
    \/ \E r \in Runs : RenderFailure(r)
    \/ StaggerTimeout

SpecLive ==
    /\ InitLive
    /\ [][NextLive]_vars
    /\ \A r \in Runs :
          /\ WF_vars(FetchSettles(r))
          /\ WF_vars(JsonSettles(r))
          /\ WF_runs(ContinuationRuns(r))

(* ------------------- a page with theme-toggle.js ----------------------- *)
\* The theme and the particle background; the repository pipeline is left
\* out.
InitThemeScript ==
    /\ Loads({Absent}, PipelineZones, {FALSE})
    /\ ThemeLoads(ThemeItems, BOOLEAN)
    /\ ParticleLoads(BOOLEAN, BOOLEAN)
    /\ NavNotLoaded

NextThemeScript ==
    \/ initTheme
    \/ toggleTheme
    \/ SchemeChange
    \/ init
    \/ handleVisibilityChange
    \/ ReducedMotionChange
    \/ AnimationFrame
    \/ restart
    \/ Reload

SpecThemeScript == InitThemeScript /\ [][NextThemeScript]_vars

(* ============================ properties =============================== *)
\* Run r makes its call of fetchGitHubRepos in this step.
Calls(r) == runs[r].pc = "idle" /\ runs'[r].pc \notin {"idle", "done"}

\* Run r holds the value of a fetchGitHubRepos call that went to the network.
FromNetwork(r) == runs[r].pc = "fetchDone" /\ ~Truthy(runs[r].cachedRepos)

\* now - timestamp < 3,600,000 for the timestamp of a parsed entry.
C1_Fresh(timestamp, now) ==
    \/ timestamp.type \in {"number", "numstring"} /\ now - timestamp.n < 3600000
    \/ timestamp.type = "null" /\ now < 3600000

\* An entry exists under the key, deserializes, and is fresh at time now.
C1_Present(item, now) ==
    /\ readable
    /\ item.present
    /\ item.text = "json"
    /\ item.json.type = "object"
    /\ C1_Fresh(item.json.timestamp, now)

C2_CacheShortCircuit ==
    \A r \in Runs :
       runs[r].cachedRepos.type = "array" =>
          /\ runs[r].pc = "fetchDone"
          /\ runs[r].result = runs[r].cachedRepos
          /\ runs[r].requested = <<>>
          /\ runs[r].cacheWrites = 0

\* C2 witness: a call has returned a cached list of two records.
C2_Witness ==
    \E r \in Runs :
       /\ runs[r].pc = "fetchDone"
       /\ runs[r].cachedRepos = Arr(OnePage)
       /\ runs[r].result = Arr(OnePage)
       /\ runs[r].requested = <<>>

\* The pages of sizes [100, 100, 37].
C3_Pages == <<Chunk(1, 100), Chunk(2, 100), Chunk(3, 37)>>

\* C3 as stated: with pages of sizes [100, 100, 37] and empty pages after
\* them, a call that went to the network returns the 237 records after 3
\* requests; when the last non-empty page is short, the number of requests
\* is the number of non-empty pages.
C3_Original ==
    \A r \in Runs :
       FromNetwork(r) =>
          LET items == runs[r].result.items
          IN  /\ items = C3_Pages =>
                   /\ Len(Flatten(items)) = 237
                   /\ Len(runs[r].requested) = 3
              /\ (items # <<>> /\ items[Len(items)].n < 100) =>
                   Len(runs[r].requested) = Len(items)

\* C3 amended: with pages of sizes [100, 100, 37] and empty pages after them
\* the call returns the 237 records after 4 requests, for pages 1 to 4; with
\* fewer than 10 non-empty pages the number of requests is the number of
\* non-empty pages plus one.
C3_PaginationStopsOnEmptyPage ==
    \A r \in Runs :
       FromNetwork(r) =>
          LET items == runs[r].result.items
          IN  /\ items = C3_Pages =>
                   /\ Len(Flatten(items)) = 237
                   /\ runs[r].requested = <<1, 2, 3, 4>>
              /\ Len(items) < 10 => Len(runs[r].requested) = Len(items) + 1

\* C3 witness: a call has returned the records of pages of sizes
\* [100, 100, 37].
C3_Witness ==
    \E r \in Runs : FromNetwork(r) /\ runs[r].result.items = C3_Pages

C5_TimeOfDay(n, z) ==
    LET sec == (n + z) % 86400
    IN  [valid |-> TRUE, h |-> sec \div 3600, m |-> (sec \div 60) % 60,
         s |-> sec % 60]

\* C5: a call that failed on a response (status 0: none was received) that
\* is not ok carries, for a 403,
\* the rate-limit message with the local time of the X-RateLimit-Reset header
\* taken as epoch seconds, and for any other status the message with that
\* status code.
C5_ErrorMessages ==
    \A r \in Runs :
       LET run == runs[r]
       IN  (run.pc = "fetchFailed"
              /\ run.response.status # 0
              /\ ~(run.response.status >= 200 /\ run.response.status <= 299)) =>
             IF run.response.status = 403
             THEN /\ run.error.kind = "rateLimit"
                  /\ run.response.header.numeric =>
                        run.error.time = C5_TimeOfDay(run.response.header.n, zone)
                  /\ (run.response.header = NumericHeader(3661) /\ zone = 0) =>
                        run.error.time = [valid |-> TRUE, h |-> 1, m |-> 1, s |-> 1]
             ELSE /\ run.error.kind = "status"
                  /\ run.error.code = run.response.status

\* C5 witness: a 403 with X-RateLimit-Reset: 45296 (12:34:56 UTC) has
\* failed a call in a zone 5:30 east with the message time 18:04:56.
C5_Witness ==
    \E r \in Runs :
       /\ runs[r].pc = "fetchFailed"
       /\ runs[r].response = [status |-> 403, header |-> NumericHeader(45296)]
       /\ zone = 19800
       /\ runs[r].error.kind = "rateLimit"
       /\ runs[r].error.time = [valid |-> TRUE, h |-> 18, m |-> 4, s |-> 56]

\* Run r is between its call of fetchGitHubRepos and the end of the run.
InFlight(r) == runs[r].pc \in {"awaitFetch", "awaitJson", "fetchDone", "fetchFailed"}

\* Run r ends in this step.
Ends(r) == runs[r].pc \in {"fetchDone", "fetchFailed"} /\ runs'[r].pc = "done"

C7_OneCacheWrite ==
    [][/\ \A r \in Runs :
            LET a == runs[r]
                b == runs'[r]
            IN  /\ (b.pc = "fetchDone" /\ ~Truthy(b.cachedRepos)) =>
                      b.cacheWrites = 1
                /\ b.pc \in {"awaitFetch", "awaitJson", "fetchFailed"} =>
                      b.cacheWrites = 0
                /\ (a.pc = "awaitJson" /\ b.pc = "fetchDone") =>
                      /\ SubSeq(b.result.items, 1, Len(a.allRepos)) = a.allRepos
                      /\ Len(b.result.items) - Len(a.allRepos) \in {0, 1}
                      /\ store' \in {store,
                                     StoredEntry(b.result, TsNumber(clock))}
       /\ store' # store =>
             \E r \in Runs :
                /\ runs[r].pc = "awaitJson"
                /\ runs'[r].pc = "fetchDone"
                /\ store' = StoredEntry(runs'[r].result, TsNumber(clock))]_vars

\* C7 witness: a call has returned three pages and the stored entry, which
\* replaced an older one, holds exactly them with the current time.
C7_Witness ==
    \E r \in Runs :
       /\ FromNetwork(r)
       /\ runs[r].cacheWrites = 1
       /\ runs[r].result.items = C3_Pages
       /\ store = StoredEntry(runs[r].result, TsNumber(clock))

\* C8: a call whose last page has arrived fails only if response.json()
\* rejected, never on the cache write; it returns the array of the fetched
\* records whether or not the write was accepted; and a run that got an
\* array ends in Success with cards of those records.
C8_CacheWriteFailureSwallowed ==
    [][\A r \in Runs :
          LET a == runs[r]
              b == runs'[r]
          IN  /\ (a.pc = "awaitJson" /\ b.pc = "fetchFailed") =>
                    b.error = SyntaxError
              /\ (a.pc = "awaitJson" /\ b.pc = "fetchDone") =>
                    /\ b.result.type = "array"
                    /\ b.error = NoError
                    /\ SubSeq(b.result.items, 1, Len(a.allRepos)) = a.allRepos
              /\ (a.pc = "fetchDone" /\ a.result.type = "array" /\ b.pc = "done") =>
                    /\ container'.kind = "Success"
                    /\ Len(container'.cards) =
                          (IF Length(a.result.items) < 9
                           THEN Length(a.result.items) ELSE 9)
                    /\ \A i \in 1 .. Len(container'.cards) :
                          \E j \in 1 .. Len(a.result.items) :
                             /\ container'.cards[i].name[1] = a.result.items[j].page
                             /\ container'.cards[i].name[2] \in 1 .. a.result.items[j].n]_vars

\* C8 witness: storage is usable, nothing was stored when the page loaded
\* and nothing is stored now, no refresh was made, and the first run has
\* ended in Success with cards: its cache write was refused.
C8_Witness ==
    /\ readable
    /\ started = 1
    /\ runs[1].pc = "done"
    /\ store = Absent
    /\ container.kind = "Success"
    /\ Len(container.cards) = 4

\* A malformed entry: text that does not parse, JSON that is no object, or
\* an object whose repos is no array or whose timestamp is no number.
C9_Malformed(item) ==
    /\ item.present
    /\ \/ item.text # "json"
       \/ item.json.type # "object"
       \/ item.json.repos.type # "array"
       \/ item.json.timestamp.type # "number"

\* C9 as stated: a call that finds a malformed entry, or cannot read the
\* storage, treats it as a miss: it goes on to the network and requests
\* page 1.
C9_MalformedIsMiss ==
    [][\A r \in Runs :
          (Calls(r) /\ (~readable \/ C9_Malformed(store'))) =>
             /\ runs'[r].pc = "awaitFetch"
             /\ runs'[r].requested = <<1>>]_vars

C11_Serialized ==
    \A r, q \in Runs : (InFlight(r) /\ InFlight(q)) => r = q

\* The container while a run is loading.
LoadingFragment ==
    [kind |-> "Loading", skeletons |-> 6, cards |-> <<>>, message |-> NoError,
     fallbackLink |-> FALSE]

\* C12 as stated: every call of refreshGitHubRepos starts a re-run that
\* shows the Loading placeholder, gets nothing from the cache and requests
\* page 1.
C12_RefreshRefetches ==
    [][refreshes' = refreshes + 1 =>
          /\ started' = started + 1
          /\ container' = LoadingFragment
          /\ ~Truthy(runs'[started'].cachedRepos)
          /\ runs'[started'].pc = "awaitFetch"
          /\ runs'[started'].requested = <<1>>]_vars

\* The characters that are markup when written into innerHTML.
MarkupCharacters == {"<", ">", "&", "\"", "'"}

\* C13 as stated: no card in the container carries a markup character taken
\* as it is from a record's description.
C13_MarkupSafe ==
    \A i \in 1 .. Len(container.cards) :
       \A k \in 1 .. Len(container.cards[i].description) :
          container.cards[i].description[k] \notin MarkupCharacters

\* How often x occurs in the list s.
Count(s, x) == Cardinality({i \in 1 .. Len(s) : s[i] = x})

\* Record a is not after record b: more stars, or as many and updated no
\* earlier.
C14_NotAfter(a, b) ==
    \/ stargazers_count(a) > stargazers_count(b)
    \/ /\ stargazers_count(a) = stargazers_count(b)
       /\ updated_at(a) >= updated_at(b)

\* C14: for the list a run is about to sort, sortRepos returns a permutation
\* of it in which every record has more stars than each later one, or as many
\* stars and an update time no earlier.
C14_SortedPermutation ==
    \A r \in Runs :
       (runs[r].pc = "fetchDone" /\ runs[r].result.type = "array") =>
          LET input == Flatten(runs[r].result.items)
              sorted == sortRepos(runs[r].result)
          IN  /\ ~sorted.threw
              /\ Len(sorted.list) = Len(input)
              /\ \A i \in 1 .. Len(input) :
                    Count(sorted.list, input[i]) = Count(input, input[i])
              /\ \A i, j \in 1 .. Len(sorted.list) :
                    i < j => C14_NotAfter(sorted.list[i], sorted.list[j])

\* C14 witness: the cached list had stars [0, 0, 1], the second record
\* updated after the first; the cards show the record with 1 star, then the
\* second, then the first.
C14_Witness ==
    /\ store = StoredEntry(Arr(<<Chunk(5, 1), Chunk(2, 2)>>),
                           TsNumber(PageLoadTime - 1))
    /\ stargazers_count(<<5, 1>>) = 0 /\ updated_at(<<5, 1>>) = 0
    /\ stargazers_count(<<2, 1>>) = 0 /\ updated_at(<<2, 1>>) = 3
    /\ stargazers_count(<<2, 2>>) = 1
    /\ container.kind = "Success"
    /\ Len(container.cards) = 3
    /\ container.cards[1].name = <<2, 2>>
    /\ container.cards[2].name = <<2, 1>>
    /\ container.cards[3].name = <<5, 1>>

C16_SequentialPages ==
    [][\A r \in Runs :
          LET a == runs[r]
              b == runs'[r]
              p == Len(a.requested)
          IN  /\ b.requested # a.requested =>
                    \/ /\ a.pc = "idle"
                       /\ b.pc = "awaitFetch"
                       /\ b.requested = <<1>>
                    \/ /\ a.pc = "awaitJson"
                       /\ b.pc = "awaitFetch"
                       /\ b.requested = Append(a.requested, p + 1)
                       /\ Len(b.allRepos) = p
                       /\ b.allRepos[p].page = p
                       /\ b.allRepos[p].n > 0
              /\ b.pc \in {"awaitFetch", "awaitJson"} =>
                    /\ Len(b.allRepos) = Len(b.requested) - 1
                    /\ \A i \in 1 .. Len(b.allRepos) :
                          b.allRepos[i].page = i /\ b.allRepos[i].n > 0
              /\ (a.pc = "awaitJson" /\ b.pc = "fetchDone") =>
                    /\ \A i \in 1 .. Len(b.result.items) :
                          b.result.items[i].page = i /\ b.result.items[i].n > 0
                    /\ SubSeq(b.result.items, 1, Len(a.allRepos)) = a.allRepos
                    /\ Len(b.result.items) \in {p - 1, p}]_vars

\* C16 witness: a call has returned pages 1 and 2, in that order, after
\* requesting pages 1, 2 and 3.
C16_Witness ==
    \E r \in Runs :
       /\ FromNetwork(r)
       /\ runs[r].requested = <<1, 2, 3>>
       /\ runs[r].result.items = <<Chunk(1, 100), Chunk(2, 37)>>

\* C17 as stated: after every step, no animation frame is pending while the
\* page is hidden or reduced motion is on, one is pending whenever the page
\* has been initialised, is visible and reduced motion is off, and no frame
\* is drawn or requested in a step that ends hidden or under reduced motion.
C17_PausedAndStopped ==
    [][/\ (hidden' \/ reduce') => pending' = {}
       /\ (particlePhase' # "loading" /\ ~hidden' /\ ~reduce') => pending' # {}
       /\ frameCount' > frameCount => (~hidden' /\ ~reduce')]_vars

\* initTheme is called in this step.
InitThemeStep == themePhase = "loading" /\ themePhase' # "loading"

SchemeChangeStep == themePhase = "ready" /\ prefersDark' # prefersDark

C20_Priority ==
    [][InitThemeStep =>
          /\ themePhase' = "ready"
          /\ dataTheme' \in {"dark", "light"}
          /\ dataTheme' = IF themeItem.present THEN themeItem.value
                          ELSE IF ~prefersDark THEN "light"
                          ELSE "dark"]_vars

\* C21: the description paragraph of every card in the container is the
\* placeholder when the record has no description or an empty one; the
\* first 100 characters and three dots when the description is longer than
\* 100 characters; and otherwise the description as it is.
C21_DescriptionShown ==
    \A i \in 1 .. Len(container.cards) :
       LET d == description(container.cards[i].name)
           shown == container.cards[i].description
       IN  IF d.type = "null" \/ Len(d.text) = 0
           THEN shown = <<"N", "o", " ", "d", "e", "s", "c", "r", "i", "p",
                          "t", "i", "o", "n", " ", "p", "r", "o", "v", "i",
                          "d", "e", "d">>
           ELSE IF Len(d.text) > 100
           THEN /\ Len(shown) = 103
                /\ \A k \in 1 .. 100 : shown[k] = d.text[k]
                /\ \A k \in 101 .. 103 : shown[k] = "."
           ELSE shown = d.text

\* C21 witness: the container holds cards of records with descriptions of
\* 150, exactly 100 and 50 characters, with none, and with an empty one.
C21_Witness ==
    /\ container.kind = "Success"
    /\ \A n \in {150, 100, 50} :
          \E i \in 1 .. Len(container.cards) :
             Len(description(container.cards[i].name).text) = n
    /\ \E i \in 1 .. Len(container.cards) :
          description(container.cards[i].name) = NoDescription
    /\ \E i \in 1 .. Len(container.cards) :
          description(container.cards[i].name) = Text(<<>>)

C23_EveryRunEnds ==
    \A r \in Runs :
       (runs[r].pc \in {"awaitFetch", "awaitJson", "fetchDone", "fetchFailed"})
       ~> (runs[r].pc = "done" /\ runs[r].domWrites = 2
             /\ container.kind \in {"Success", "Error"})

\* C23 witness: a run has asked for all ten pages, got records on each of
\* them, and has ended with its cards in the container.
C23_Witness ==
    \E r \in Runs :
       /\ runs[r].pc = "done"
       /\ container.kind = "Success"
       /\ store # Absent
       /\ store.json.type = "object"
       /\ Len(store.json.repos.items) = MaxPages

\* C24: once a run that was started later has ended and written its
\* outcome, the end of a run that was started earlier leaves the container
\* as it is.
C24_NewestOutcomeStays ==
    [][\A r, q \in Runs :
          (r < q /\ runs[q].pc = "done" /\ runs[q].domWrites = 2 /\ Ends(r))
          => container' = container]_vars

\* C25: from its call up to and including the step in which it fails, a
\* fetchGitHubRepos call makes no setCachedRepos call, leaves the stored
\* entry as it is, and has no list as its result; so the entry after a failed
\* call is the entry before it.
C25_FailureWritesNothing ==
    [][\A r \in Runs :
          runs'[r].pc \in {"awaitFetch", "awaitJson", "fetchFailed"}
          => /\ store' = store
             /\ runs'[r].cacheWrites = 0
             /\ runs'[r].result = Null]_vars

\* C25 witness: a call has failed on its third page, after two pages had
\* arrived, and the stale entry it found is still the stored one.
C25_Witness ==
    /\ runs[1].pc = "fetchFailed"
    /\ runs[1].requested = <<1, 2, 3>>
    /\ runs[1].cacheWrites = 0
    /\ runs[1].result = Null
    /\ store = StoredEntry(Arr(OnePage),
                           TsNumber(PageLoadTime - CACHE_DURATION_MS))

\* C26: a call served from the cache leaves the stored entry, list and
\* timestamp, as it is, and returns the list of an entry that was stored
\* less than 3,600,000 ms before the call; and the stored timestamp changes
\* only when a call returns from the network, to the time of that return.
C26_ReadsKeepTimestamp ==
    [][/\ \A r \in Runs :
            (started' = started + 1 /\ runs'[r].pc = "fetchDone")
            => /\ store' = store
               /\ runs'[r].result = store.json.repos
               /\ store.json.timestamp.type = "number"
               /\ clock - store.json.timestamp.n \in 0 .. (3600000 - 1)
       /\ store' # store
          => \E r \in Runs :
                /\ runs[r].pc = "awaitJson"
                /\ runs'[r].pc = "fetchDone"
                /\ store' = StoredEntry(runs'[r].result, TsNumber(clock))]_vars

\* C26 witness: the entry was written by a call that returned from the
\* network, a later call was served from it one millisecond before it
\* expired, and the entry still carries the time of the write.
C26_Witness ==
    /\ started >= 2
    /\ ticks >= 1
    /\ runs[1].pc = "fetchDone"
    /\ Truthy(runs[1].cachedRepos)
    /\ store.json.type = "object"
    /\ store.json.timestamp = TsNumber(clock - 3600000 + 1)
    /\ store.json.timestamp.n >= PageLoadTime

\* C27: at most one requestAnimationFrame callback of the particle loop is
\* pending at any time.
C27_SingleLoop == Cardinality(pending) <= 1

\* C28: the body's overflow is 'hidden' exactly when .nav-links has the
\* class 'open', and the toggle's aria-expanded is "true" exactly then.
C28_ScrollLockedIffOpen ==
    /\ bodyOverflow = "hidden" <=> navOpen
    /\ ariaExpanded = "true" <=> navOpen

====
